---------------------------- MODULE Spec2Model ----------------------------
(***************************************************************************)
(* Lumi: a VS Code extension that supervises one backend worker process    *)
(* and one webview panel (src/projects/Lumi/src/extension.ts), and the     *)
(* webview's chat relay (src/unnamed/part_000, the React App component).   *)
(*                                                                         *)
(* Every handler runs to completion on the single event loop, so each      *)
(* handler is one action.  WebviewPanel.dispose() fires the panel's        *)
(* onDidDispose listeners before it returns, so a dispose call and the     *)
(* callback of lines 114-117 belong to the same action.                    *)
(* The content renderer getWebviewContent is a pure function of the        *)
(* index.html it reads and the translated root; it has its own             *)
(* specification, SpecRender.                                              *)
(***************************************************************************)
EXTENDS Integers, Sequences, FiniteSets

\* ------------------------------------------------------------- bounds
MaxSpawn == 2       \* worker processes spawned in one session
MaxPanels == 2      \* panels created in one session
MaxRun == 3         \* consecutive 'lumi.start' invocations that are counted
MaxSends == 2       \* chat requests issued in one session

\* vscode.ViewColumn.One, the fixed default column
ViewColumnOne == 1
\* the editor columns an active editor may be in
MaxColumn == 2
\* the elements (tags and attributes) of an index.html
MaxDoc == 2

VARIABLES
    backendProcess,   \* id of the ChildProcess held by the module variable, 0 = undefined
    currentPanel,     \* id of the WebviewPanel held by the module variable, 0 = undefined
    procs,            \* every ChildProcess object spawn() has returned
    panels,           \* every WebviewPanel createWebviewPanel() has returned
    active,           \* the extension's subscriptions are not yet disposed
    lastOp,           \* what the last handler that ran did
    input,            \* App state: the text field's value
    messages,         \* App state: the conversation log
    isLoading,        \* App state: the outstanding-request flag
    sends,            \* every handleSend call that passed the guard of line 29
    chatOp,           \* what the last step of the chat relay did
    doc,              \* the content of index.html in the bundle directory
    baseUri,          \* webview.asWebviewUri(buildPath)
    html              \* what getWebviewContent last returned

extVars == <<backendProcess, currentPanel, procs, panels, active, lastOp>>
chatVars == <<input, messages, isLoading, sends, chatOp>>
renderVars == <<doc, baseUri, html>>
vars == <<extVars, chatVars, renderVars>>

ProcIds == 1..MaxSpawn
PanelIds == 1..MaxPanels
Columns == 1..MaxColumn

\* A line of worker output, as the set of the substrings it contains that
\* the stderr handler looks for: a plain line, an informational line, the
\* server's readiness line (an informational line), an error line and a
\* warning line.
OutputLines ==
    {{}, {"INFO"}, {"INFO", "Application startup complete"}, {"ERROR"}, {"Warning"}}
\* A chunk handed to the 'data' listener: one line, or two lines that the
\* stream delivers together.
Chunks == {<<l>> : l \in OutputLines} \cup (OutputLines \X OutputLines)

\* message.includes(marker), on the chunk's text
Includes(chunk, marker) == \E i \in 1..Len(chunk) : marker \in chunk[i]

NoProc == [st |-> "unspawned", isBackendReady |-> FALSE, killed |-> FALSE]
NoPanel == [st |-> "none", col |-> 0]
\* What a handler did: the processes it spawned, the panels it created,
\* revealed (and the column it passed) or disposed, the notifications it
\* showed; errLines is the number of error lines of the chunk a stderr
\* handler received, run the number of 'lumi.start' commands in a row.
\* exe is what fs.existsSync answered if it was asked, editor the active
\* editor's column (0: none) when the handler revealed or created a panel,
\* proc the worker whose stderr handler ran and marker whether its chunk held
\* the readiness marker.
Idle == [op |-> "init", spawned |-> FALSE, created |-> FALSE, reveals |-> 0, column |-> 0,
         disposed |-> FALSE, notices |-> 0, notice |-> "none", errLines |-> 0, run |-> 0,
         exe |-> "unchecked", editor |-> 0, proc |-> 0, marker |-> FALSE]

NumSpawned(ps) == Cardinality({p \in ProcIds : ps[p].st # "unspawned"})
NumPanels(pn) == Cardinality({q \in PanelIds : pn[q].st # "none"})
\* a spawned process that has not exited
Live(p) == procs[p].st = "running"
OpenPanels == {q \in PanelIds : panels[q].st = "open"}

\* A launch has failed and its 'error' event is not yet handled.  Node
\* emits that event on the next tick after spawn() returns, so it is handled
\* before any other command or event.
ErrorPending == \E p \in ProcIds : procs[p].st = "failing"

ExtInit ==
    /\ backendProcess = 0
    /\ currentPanel = 0
    /\ procs = [p \in ProcIds |-> NoProc]
    /\ panels = [q \in PanelIds |-> NoPanel]
    /\ active = TRUE
    /\ lastOp = Idle

\* ------------------------------------------------- the panel controller

\* currentPanel.reveal(column) on an open panel: an undefined column (0)
\* leaves the panel in its column.
Reveal(pn, cp, column) ==
    [pn EXCEPT ![cp].col = IF column # 0 THEN column ELSE @]

\* currentPanel.dispose() by the extension: the panel closes.
DisposePanel(pn, cp) ==
    [pn EXCEPT ![cp] = [st |-> "disposed", col |-> 0]]

\* if (currentPanel) { currentPanel.dispose(); }, lines 13-15 and 66-68;
\* dispose() runs the onDidDispose callback of lines 114-117, which clears
\* currentPanel.
DisposeIfOpen(pn, cp) ==
    IF cp # 0
    THEN [cp |-> 0, pn |-> DisposePanel(pn, cp), disposed |-> TRUE]
    ELSE [cp |-> cp, pn |-> pn, disposed |-> FALSE]

\* A createOrShowWebviewPanel that does not look at currentPanel.
CreateAlways(pn, cp, editor) ==
    LET q == NumPanels(pn) + 1
        column == IF editor # 0 THEN editor ELSE ViewColumnOne
    IN [cp |-> q, pn |-> [pn EXCEPT ![q] = [st |-> "open", col |-> column]],
        created |-> TRUE, reveals |-> 0, column |-> column]

\* createOrShowWebviewPanel, with the active editor's column (0: no active
\* editor, column undefined).  The result is the new currentPanel and panels
\* and what was called.
createOrShowWebviewPanel(pn, cp, editor) ==
    IF cp # 0
    THEN [cp |-> cp, pn |-> Reveal(pn, cp, editor),
          created |-> FALSE, reveals |-> 1, column |-> editor]
    ELSE LET q == NumPanels(pn) + 1
             column == IF editor # 0 THEN editor ELSE ViewColumnOne
         IN [cp |-> q, pn |-> [pn EXCEPT ![q] = [st |-> "open", col |-> column]],
             created |-> TRUE, reveals |-> 0, column |-> column]

\* Room for the panel createOrShowWebviewPanel would create.
CanShow(pn, cp) == cp # 0 \/ NumPanels(pn) < MaxPanels

\* A disposal callback that also stops the worker.
PanelCloseStopsWorker ==
    /\ ~ErrorPending
    /\ currentPanel # 0
    /\ panels' = [panels EXCEPT ![currentPanel] = [st |-> "closed", col |-> 0]]
    /\ currentPanel' = 0
    /\ procs' = IF backendProcess # 0
                THEN [procs EXCEPT ![backendProcess].killed = TRUE]
                ELSE procs
    /\ backendProcess' = 0
    /\ lastOp' = [Idle EXCEPT !.op = "close"]
    /\ UNCHANGED active
    /\ UNCHANGED <<chatVars, renderVars>>

\* The user closes the panel: VS Code disposes it and the onDidDispose
\* callback runs; it clears currentPanel and nothing else.
PanelClose ==
    /\ ~ErrorPending
    /\ currentPanel # 0
    /\ panels' = [panels EXCEPT ![currentPanel] = [st |-> "closed", col |-> 0]]
    /\ currentPanel' = 0
    /\ lastOp' = [Idle EXCEPT !.op = "close"]
    /\ UNCHANGED <<backendProcess, procs, active>>
    /\ UNCHANGED <<chatVars, renderVars>>

\* ------------------------------------------------ the process supervisor

\* A handler that does not look for the executable.
ExeMissingNever(exeExists) == FALSE

\* if (!fs.existsSync(exePath)), line 36
ExeMissing(exeExists) == ~exeExists

\* A handler that spawns whether or not a handle exists.
NeedSpawnAlways(bp) == TRUE

\* if (!backendProcess), line 33
NeedSpawn(bp) == bp = 0

\* Lines 32-80 of the 'lumi.start' handler, reached with the panels pn and
\* after `reveals` reveal calls: spawn the worker if there is no handle,
\* else show the panel.  exeExists is fs.existsSync(exePath), spawnOk whether
\* the operating system could launch the executable, editor the active
\* editor's column.
StartSpawnOrShow(pn, reveals, exeExists, spawnOk, editor) ==
    LET run == IF lastOp.op = "start" THEN lastOp.run + 1 ELSE 1
        op == [Idle EXCEPT !.op = "start", !.run = run, !.reveals = reveals,
                           !.column = IF reveals > 0 THEN ViewColumnOne ELSE 0]
    IN
    IF NeedSpawn(backendProcess)
    THEN IF ExeMissing(exeExists)
         THEN /\ lastOp' = [op EXCEPT !.notices = 1, !.notice = "missing",
                                      !.exe = IF exeExists THEN "found" ELSE "absent"]
              /\ panels' = pn
              /\ UNCHANGED <<backendProcess, currentPanel, procs, active>>
         ELSE /\ NumSpawned(procs) < MaxSpawn
              /\ LET p == NumSpawned(procs) + 1 IN
                 /\ backendProcess' = p
                 /\ procs' = [procs EXCEPT ![p] =
                        [st |-> IF spawnOk THEN "running" ELSE "failing",
                         isBackendReady |-> FALSE, killed |-> FALSE]]
              /\ lastOp' = [op EXCEPT !.spawned = TRUE,
                                      !.exe = IF exeExists THEN "found" ELSE "absent"]
              /\ panels' = pn
              /\ UNCHANGED <<currentPanel, active>>
    ELSE /\ CanShow(pn, currentPanel)
         /\ LET r == createOrShowWebviewPanel(pn, currentPanel, editor) IN
            /\ currentPanel' = r.cp
            /\ panels' = r.pn
            /\ lastOp' = [op EXCEPT !.created = r.created, !.reveals = reveals + r.reveals,
                                    !.column = r.column, !.editor = editor]
         /\ UNCHANGED <<backendProcess, procs, active>>

\* The handler without the return of line 29.
StartHandlerNoReturn(exeExists, spawnOk, editor) ==
    IF currentPanel # 0
    THEN StartSpawnOrShow(Reveal(panels, currentPanel, ViewColumnOne), 1,
                          exeExists, spawnOk, editor)
    ELSE StartSpawnOrShow(panels, 0, exeExists, spawnOk, editor)

\* The 'lumi.start' command handler, lines 24-81.
StartHandler(exeExists, spawnOk, editor) ==
    IF currentPanel # 0
    THEN /\ panels' = Reveal(panels, currentPanel, ViewColumnOne)
         /\ lastOp' = [Idle EXCEPT !.op = "start", !.reveals = 1, !.column = ViewColumnOne,
                                   !.editor = editor,
                                   !.run = IF lastOp.op = "start" THEN lastOp.run + 1 ELSE 1]
         /\ UNCHANGED <<backendProcess, currentPanel, procs, active>>
    ELSE StartSpawnOrShow(panels, 0, exeExists, spawnOk, editor)

\* The command exists until the subscriptions are disposed.
Start ==
    /\ ~ErrorPending
    /\ active
    /\ ~(lastOp.op = "start" /\ lastOp.run >= MaxRun)
    /\ \E exeExists \in BOOLEAN, spawnOk \in BOOLEAN, editor \in 0..MaxColumn :
          StartHandler(exeExists, spawnOk, editor)
    /\ UNCHANGED <<chatVars, renderVars>>

\* The lines of a chunk that carry an error or warning marker and no
\* informational marker.
ErrorLines(chunk) ==
    {i \in 1..Len(chunk) : ("ERROR" \in chunk[i] \/ "Warning" \in chunk[i]) /\ "INFO" \notin chunk[i]}

\* A test for the marker that forgets the flag.
DetectsReadyEveryTime(chunk, isBackendReady) ==
    Includes(chunk, "Application startup complete")

\* backendProcess.stderr.on('data'), lines 46-61, of process p.
\* message.includes("Application startup complete") && !isBackendReady, line 51
DetectsReady(chunk, isBackendReady) ==
    Includes(chunk, "Application startup complete") /\ ~isBackendReady

StderrHandler(p, chunk, editor) ==
    LET ready == DetectsReady(chunk, procs[p].isBackendReady)
        r == IF ready
             THEN createOrShowWebviewPanel(panels, currentPanel, editor)
             ELSE [cp |-> currentPanel, pn |-> panels, created |-> FALSE, reveals |-> 0, column |-> 0]
        popup == (Includes(chunk, "ERROR") \/ Includes(chunk, "Warning")) /\ ~Includes(chunk, "INFO")
    IN
    /\ ready => CanShow(panels, currentPanel)
    /\ procs' = IF ready THEN [procs EXCEPT ![p].isBackendReady = TRUE] ELSE procs
    /\ currentPanel' = r.cp
    /\ panels' = r.pn
    /\ lastOp' = [Idle EXCEPT !.op = "stderr", !.created = r.created, !.reveals = r.reveals,
                              !.column = r.column,
                              !.editor = IF ready THEN editor ELSE 0,
                              !.proc = p,
                              !.marker = Includes(chunk, "Application startup complete"),
                              !.notices = IF popup THEN 1 ELSE 0,
                              !.notice = IF popup THEN "backend" ELSE "none",
                              !.errLines = Cardinality(ErrorLines(chunk))]
    /\ UNCHANGED <<backendProcess, active>>

\* Output of a launched worker is delivered; the stream of a worker that has
\* exited may still hold data ('exit' does not wait for the stdio streams).
StderrData ==
    \E p \in ProcIds :
        /\ ~ErrorPending
        /\ procs[p].st \in {"running", "exited"}
        /\ \E chunk \in Chunks :
              \* the active editor is read only by createOrShowWebviewPanel
              IF DetectsReady(chunk, procs[p].isBackendReady)
              THEN \E editor \in 0..MaxColumn : StderrHandler(p, chunk, editor)
              ELSE StderrHandler(p, chunk, 0)
        /\ UNCHANGED <<chatVars, renderVars>>

\* An exit handler that clears the handle and leaves the panel.
ExitHandlerNoCascade(p) ==
    /\ backendProcess' = 0
    /\ lastOp' = [Idle EXCEPT !.op = "exit"]
    /\ UNCHANGED <<currentPanel, panels>>

\* backendProcess.on('exit'), lines 63-69, of process p.
ExitHandler(p) ==
    LET r == DisposeIfOpen(panels, currentPanel) IN
    /\ backendProcess' = 0
    /\ currentPanel' = r.cp
    /\ panels' = r.pn
    /\ lastOp' = [Idle EXCEPT !.op = "exit", !.disposed = r.disposed]

Exit ==
    \E p \in ProcIds :
        /\ ~ErrorPending
        /\ procs[p].st = "running"
        /\ procs' = [procs EXCEPT ![p].st = "exited"]
        /\ ExitHandler(p)
        /\ UNCHANGED active
        /\ UNCHANGED <<chatVars, renderVars>>

\* An error handler that leaves the handle in place.
ErrorHandlerKeepsHandle(p) ==
    /\ backendProcess' = backendProcess
    /\ UNCHANGED <<currentPanel, panels>>

\* backendProcess.on('error'), lines 71-75, of process p: the launch failed.
ErrorHandler(p) ==
    /\ backendProcess' = 0
    /\ UNCHANGED <<currentPanel, panels>>

Error ==
    \E p \in ProcIds :
        /\ procs[p].st = "failing"
        /\ procs' = [procs EXCEPT ![p].st = "failed"]
        /\ ErrorHandler(p)
        /\ lastOp' = [Idle EXCEPT !.op = "error", !.notices = 1, !.notice = "spawnerr"]
        /\ UNCHANGED active
        /\ UNCHANGED <<chatVars, renderVars>>

\* A teardown that forgets the worker without killing it.
TeardownHandlerNoKill ==
    LET r == DisposeIfOpen(panels, currentPanel) IN
    /\ currentPanel' = r.cp
    /\ panels' = r.pn
    /\ procs' = procs
    /\ backendProcess' = 0
    /\ lastOp' = [Idle EXCEPT !.op = "teardown", !.disposed = r.disposed]

\* The Disposable of lines 12-20, run when the subscriptions are disposed.
TeardownHandler ==
    LET r == DisposeIfOpen(panels, currentPanel) IN
    /\ currentPanel' = r.cp
    /\ panels' = r.pn
    /\ procs' = IF backendProcess # 0
                THEN [procs EXCEPT ![backendProcess].killed = TRUE]
                ELSE procs
    /\ backendProcess' = 0
    /\ lastOp' = [Idle EXCEPT !.op = "teardown", !.disposed = r.disposed]

Teardown ==
    /\ ~ErrorPending
    /\ active
    /\ active' = FALSE
    /\ TeardownHandler
    /\ UNCHANGED <<chatVars, renderVars>>

ExtNext == Start \/ StderrData \/ Exit \/ Error \/ PanelClose \/ Teardown

\* ----------------------------------------------------------- chat relay
\* The App component of src/unnamed/part_000.  Its handlers are React event
\* handlers: the state they set is rendered before the next event, so a
\* handler reads the state the previous step left.

\* An optional value: a property that is present, or undefined.
Some(v) == [def |-> TRUE, val |-> v]
None == [def |-> FALSE, val |-> <<>>]

\* Texts are sequences of characters.
GreetingText == <<"greeting">>
ErrorText == <<"error: check the backend connection">>
\* { role: "bot", text: <greeting> }, line 18
GreetingEntry == [role |-> "bot", text |-> Some(GreetingText), results |-> None]
\* { role: "bot", text: <error> }, line 51
ErrorEntry == [role |-> "bot", text |-> Some(ErrorText), results |-> None]
\* { role: "user", text: userMsg }, line 33
UserEntry(userMsg) == [role |-> "user", text |-> Some(userMsg), results |-> None]
\* An assistant entry that drops the result list.
ReplyEntryNoResults(data) == [role |-> "bot", text |-> data.message, results |-> None]

\* { role: "bot", text: data.message, results: data.results }, line 46
ReplyEntry(data) == [role |-> "bot", text |-> data.message, results |-> data.results]

\* What the user may type: nothing, white space, text, text with white space
\* before or after it.
Inputs == {<<>>, <<" ">>, <<"x">>, <<" ", "x">>, <<"x", " ">>}

RECURSIVE TrimStart(_)
TrimStart(str) ==
    IF str # <<>> /\ Head(str) = " " THEN TrimStart(Tail(str)) ELSE str
RECURSIVE TrimEnd(_)
TrimEnd(str) ==
    IF str # <<>> /\ str[Len(str)] = " "
    THEN TrimEnd(SubSeq(str, 1, Len(str) - 1))
    ELSE str
\* String.prototype.trim
Trim(str) == TrimEnd(TrimStart(str))

\* What res.json() may resolve to: null, or an object with or without the
\* message and results properties.
JsonNull == [isNull |-> TRUE, message |-> None, results |-> None]
JsonValues ==
    {JsonNull,
     [isNull |-> FALSE, message |-> Some(<<"reply">>),
      results |-> Some(<<[name |-> "tmp", path |-> "/tmp"]>>)],
     [isNull |-> FALSE, message |-> Some(<<"reply">>), results |-> None],
     [isNull |-> FALSE, message |-> None, results |-> None]}

\* The requests that have been issued and have not resolved.
Outstanding(sq) == {i \in 1..Len(sq) : sq[i].stage \in {"fetch", "json"}}

ChatInit ==
    /\ input = <<>>
    /\ messages = <<GreetingEntry>>
    /\ isLoading = FALSE
    /\ sends = <<>>
    /\ chatOp = [op |-> "init", accepted |-> FALSE]

\* onInput, line 100
setInput ==
    \E v \in Inputs :
        /\ input' = v
        /\ chatOp' = [op |-> "input", accepted |-> FALSE]
        /\ UNCHANGED <<messages, isLoading, sends>>
        /\ UNCHANGED <<extVars, renderVars>>

\* A guard that rejects blank input only.
RejectsBlankOnly(text, loading) == Trim(text) = <<>>

\* if (!input.trim() || isLoading) return;  line 29
Rejects(text, loading) == Trim(text) = <<>> \/ loading

\* handleSend up to its first await, lines 28-41: the click on the button or
\* the Enter key.
handleSend ==
    /\ IF Rejects(input, isLoading)
       THEN /\ chatOp' = [op |-> "send", accepted |-> FALSE]
            /\ UNCHANGED <<input, messages, isLoading, sends>>
       ELSE /\ Len(sends) < MaxSends
            /\ input' = <<>>
            /\ messages' = Append(messages, UserEntry(input))
            /\ isLoading' = TRUE
            /\ sends' = Append(sends, [body |-> [user_query |-> input], stage |-> "fetch",
                                       ok |-> FALSE, failure |-> "none", reply |-> 0,
                                       data |-> JsonNull])
            /\ chatOp' = [op |-> "send", accepted |-> TRUE]
    /\ UNCHANGED <<extVars, renderVars>>

\* A catch block with no finally: the flag stays set.
CatchNoFinally(i, why) ==
    /\ messages' = Append(messages, ErrorEntry)
    /\ isLoading' = isLoading
    /\ sends' = [sends EXCEPT ![i].stage = "fulfilled", ![i].failure = why,
                              ![i].reply = Len(messages) + 1]

\* A catch block that sets the log to the error entry instead of appending.
CatchReplacesLog(i, why) ==
    /\ messages' = <<ErrorEntry>>
    /\ isLoading' = FALSE
    /\ sends' = [sends EXCEPT ![i].stage = "fulfilled", ![i].failure = why,
                              ![i].reply = 1]

\* catch and finally, lines 48-55, of request i
CatchFinally(i, why) ==
    /\ messages' = Append(messages, ErrorEntry)
    /\ isLoading' = FALSE
    /\ sends' = [sends EXCEPT ![i].stage = "fulfilled", ![i].failure = why,
                              ![i].reply = Len(messages) + 1]

\* fetch resolves with a response, whatever its status: handleSend goes on
\* to res.json(), line 42.
FetchResolves ==
    \E i \in 1..Len(sends), ok \in BOOLEAN :
        /\ sends[i].stage = "fetch"
        /\ sends' = [sends EXCEPT ![i].stage = "json", ![i].ok = ok]
        /\ chatOp' = [op |-> "response", accepted |-> FALSE]
        /\ UNCHANGED <<input, messages, isLoading>>
        /\ UNCHANGED <<extVars, renderVars>>

\* fetch rejects: a transport failure.
FetchRejects ==
    \E i \in 1..Len(sends) :
        /\ sends[i].stage = "fetch"
        /\ CatchFinally(i, "transport")
        /\ chatOp' = [op |-> "failure", accepted |-> FALSE]
        /\ UNCHANGED input
        /\ UNCHANGED <<extVars, renderVars>>

\* res.json() resolves with data, lines 42-47 and 53-55; reading a property
\* of null throws inside the try block.
JsonResolves ==
    \E i \in 1..Len(sends), data \in JsonValues :
        /\ sends[i].stage = "json"
        /\ IF data.isNull
           THEN CatchFinally(i, "null")
           ELSE /\ messages' = Append(messages, ReplyEntry(data))
                /\ isLoading' = FALSE
                /\ sends' = [sends EXCEPT ![i].stage = "fulfilled", ![i].data = data,
                                          ![i].reply = Len(messages) + 1]
        /\ chatOp' = [op |-> "data", accepted |-> FALSE]
        /\ UNCHANGED input
        /\ UNCHANGED <<extVars, renderVars>>

\* res.json() rejects: the body is not JSON.
JsonRejects ==
    \E i \in 1..Len(sends) :
        /\ sends[i].stage = "json"
        /\ CatchFinally(i, "parse")
        /\ chatOp' = [op |-> "failure", accepted |-> FALSE]
        /\ UNCHANGED input
        /\ UNCHANGED <<extVars, renderVars>>

ChatNext == setInput \/ handleSend \/ FetchResolves \/ FetchRejects \/ JsonResolves \/ JsonRejects

\* ------------------------------------------------------ content renderer
\* getWebviewContent, lines 120-161.  A document is a sequence of elements:
\* head-open tags in several spellings and attributes attr=<quote>dir/name<quote>
\* with dir a sequence of path segments.

Tag(text) == [kind |-> "tag", text |-> text, quote |-> "", dir |-> <<>>, name |-> ""]
Ref(attr, quote, dir, name) ==
    [kind |-> "ref", text |-> attr, quote |-> quote, dir |-> dir, name |-> name]

\* ./assets/
RelAssets == <<".", "assets">>

HeadTags == {Tag("<head>"), Tag("<head lang=\"en\">"), Tag("<HEAD>")}
Refs == {Ref(attr, quote, dir, "x.js") :
            attr \in {"src", "href", "poster"}, quote \in {"\"", "'"},
            dir \in {RelAssets, <<".">>}}
Elements == HeadTags \cup Refs

RECURSIVE SeqsUpTo(_)
SeqsUpTo(n) ==
    IF n = 0 THEN {<<>>}
    ELSE LET shorter == SeqsUpTo(n - 1) IN
         shorter \cup {Append(d, e) : d \in {x \in shorter : Len(x) = n - 1}, e \in Elements}

\* the files fs.readFileSync may find, line 127
Docs == SeqsUpTo(MaxDoc)
\* the roots webview.asWebviewUri may return, line 128
Roots == {"https://file+.vscode-resource.vscode-cdn.net/a/dist",
          "https://file+.vscode-resource.vscode-cdn.net/b/dist"}

NotRendered == [ok |-> FALSE, body |-> <<>>]
\* the inline error document of line 125
TemplateNotFound == [ok |-> FALSE, body |-> <<Tag("<html><body><h1>Error</h1>")>>]

\* /(src|href)="\.\/assets\/(.*?)"/ matches the element, line 147
MatchesAssetRef(e) ==
    /\ e.kind = "ref"
    /\ e.text \in {"src", "href"}
    /\ e.quote = "\""
    /\ e.dir = RelAssets

\* $1="${baseUri}/assets/$2", line 148
Rewritten(e, root) == [e EXCEPT !.dir = <<root, "assets">>]

\* html.replace(/.../g, ...), lines 146-149: every match
RewriteAssets(d, root) ==
    [i \in 1..Len(d) |-> IF MatchesAssetRef(d[i]) THEN Rewritten(d[i], root) ELSE d[i]]

\* the tags of lines 154-158: charset, viewport, base and the policy of
\* lines 131-141
InjectedTags(root) ==
    <<Tag("<meta charset=\"UTF-8\">"),
      Tag("<meta name=\"viewport\" content=\"width=device-width, initial-scale=1.0\">"),
      [kind |-> "base", text |-> "href", quote |-> "\"", dir |-> <<root>>, name |-> ""],
      [kind |-> "csp", text |-> "connect-src http://localhost:8000", quote |-> "\"",
       dir |-> <<root>>, name |-> ""]>>

\* html.replace('<head>', ...), lines 152-160: a string pattern replaces its
\* first occurrence, and nothing when there is none
InjectHead(d, root) ==
    LET found == {i \in 1..Len(d) : d[i] = Tag("<head>")} IN
    IF found = {} THEN d
    ELSE LET h == CHOOSE i \in found : \A j \in found : i <= j IN
         SubSeq(d, 1, h) \o InjectedTags(root) \o SubSeq(d, h + 1, Len(d))

getWebviewContent(exists, d, root) ==
    IF ~exists THEN TemplateNotFound
    ELSE [ok |-> TRUE, body |-> InjectHead(RewriteAssets(d, root), root)]

\* Nothing is rendered: the state of the renderer while the other parts run.
NoRender ==
    /\ doc = <<>>
    /\ baseUri = CHOOSE r \in Roots : TRUE
    /\ html = NotRendered

\* Any index.html and any translated root.
RenderInit ==
    /\ doc \in Docs
    /\ baseUri \in Roots
    /\ html = NotRendered

\* currentPanel.webview.html = getWebviewContent(...), line 111
Render ==
    /\ \E exists \in BOOLEAN : html' = getWebviewContent(exists, doc, baseUri)
    /\ UNCHANGED <<doc, baseUri>>
    /\ UNCHANGED <<extVars, chatVars>>

RenderNext == Render

Init == ExtInit /\ ChatInit /\ NoRender

InitRender == ExtInit /\ ChatInit /\ RenderInit

\* The extension host: commands, worker events, panel closes, teardown.
Spec == Init /\ [][ExtNext]_vars

\* The webview: the chat relay.
SpecChat == Init /\ [][ChatNext]_vars

\* The content renderer.
SpecRender == InitRender /\ [][RenderNext]_vars

\* ------------------------------------------------- lifecycle properties

LiveWorkers == {p \in ProcIds : Live(p)}

\* C1: readiness gating.  A handler that has just created a panel did so
\* with a worker handle whose worker has already written the readiness
\* marker to stderr.
C1_ReadinessGating ==
    lastOp.created => (backendProcess # 0 /\ procs[backendProcess].isBackendReady)

\* C2: at most one worker is live at any time, and a 'lumi.start' that has
\* just spawned a worker did so while no other worker was live.
C2_AtMostOneLiveWorker ==
    /\ Cardinality(LiveWorkers) <= 1
    /\ lastOp.spawned => LiveWorkers \subseteq {backendProcess}

\* A second worker was spawned after the first one exited.
C2_Witness ==
    /\ lastOp.op = "start" /\ lastOp.spawned
    /\ backendProcess = 2 /\ Live(2) /\ procs[1].st = "exited"

\* C3: whenever a panel is open, a worker process is live.
C3_PanelImpliesLiveWorker ==
    currentPanel # 0 => (backendProcess # 0 /\ Live(backendProcess))

\* C4: cascading teardown.  Handling a worker's 'exit' event leaves
\* backendProcess and currentPanel undefined, and the panel that was open is
\* disposed.
C4_CascadingTeardown ==
    [][(\E p \in ProcIds : procs[p].st = "running" /\ procs'[p].st = "exited")
        => /\ backendProcess' = 0
           /\ currentPanel' = 0
           /\ currentPanel # 0 => panels'[currentPanel].st = "disposed"]_vars

\* An exit handler has disposed an open panel.
C4_Witness ==
    /\ lastOp.op = "exit" /\ lastOp.disposed
    /\ backendProcess = 0 /\ currentPanel = 0

\* C5: the user's closing the panel clears the panel handle only: the worker
\* handle and every worker's liveness, readiness flag and kill state are
\* unchanged; and a 'lumi.start' with a worker handle and no panel opens a
\* panel on that worker without spawning.
C5_PanelCloseKeepsWorker ==
    [][/\ (currentPanel # 0 /\ panels'[currentPanel].st = "closed")
            => (currentPanel' = 0 /\ UNCHANGED <<backendProcess, procs>>)
       /\ (lastOp'.op = "start" /\ currentPanel = 0 /\ backendProcess # 0)
            => /\ lastOp'.created /\ ~lastOp'.spawned
               /\ currentPanel' # 0
               /\ UNCHANGED <<backendProcess, procs>>]_vars

\* After the user closed the first panel, 'lumi.start' has opened a second
\* one on the first, still live and ready, worker.
C5_Witness ==
    /\ lastOp.op = "start" /\ lastOp.created
    /\ panels[1].st = "closed" /\ currentPanel = 2
    /\ backendProcess = 1 /\ Live(1) /\ procs[1].isBackendReady
    /\ NumSpawned(procs) = 1

\* C6: 'lumi.start' with a ready worker and an open panel spawns nothing and
\* creates nothing: it reveals the panel once, in ViewColumn.One, and leaves
\* backendProcess, currentPanel and the workers unchanged.
C6_StartIdempotent ==
    [][(/\ lastOp'.op = "start"
        /\ currentPanel # 0
        /\ backendProcess # 0 /\ procs[backendProcess].isBackendReady)
        => /\ UNCHANGED <<backendProcess, currentPanel, procs>>
           /\ panels' = [panels EXCEPT ![currentPanel].col = ViewColumnOne]
           /\ ~lastOp'.spawned /\ ~lastOp'.created
           /\ lastOp'.reveals = 1]_vars

\* Three 'lumi.start' commands in a row on a ready worker, the last two of
\* them with the panel open.
C6_Witness ==
    /\ lastOp.op = "start" /\ lastOp.run = 3 /\ lastOp.reveals = 1
    /\ currentPanel # 0
    /\ backendProcess # 0 /\ procs[backendProcess].isBackendReady
    /\ NumSpawned(procs) = 1 /\ NumPanels(panels) = 1

\* C7: at most one panel is open at any time, and a handler that has just
\* created a panel did so while no panel was open.
C7_AtMostOnePanel ==
    /\ Cardinality(OpenPanels) <= 1
    /\ lastOp.created => OpenPanels = {currentPanel}

\* Readiness was detected with the panel already open: the show operation
\* revealed it and created nothing.
C7_Witness ==
    /\ lastOp.op = "stderr" /\ lastOp.reveals = 1 /\ ~lastOp.created
    /\ OpenPanels = {currentPanel}

\* C8: after teardown backendProcess and currentPanel are undefined and stay
\* so, whatever worker event is handled later.
C8_TeardownIsFinal ==
    ~active => (backendProcess = 0 /\ currentPanel = 0 /\ OpenPanels = {})

\* ----------------------------------------------------- relay properties

\* C9: single-flight.  At most one request is outstanding after every step,
\* and a send issued while a request is outstanding is rejected: it leaves
\* the text field, the log and the requests as they are and the flag set.
C9_SingleFlight ==
    [][/\ Cardinality(Outstanding(sends')) <= 1
       /\ (chatOp'.op = "send" /\ Outstanding(sends) # {})
            => /\ ~chatOp'.accepted
               /\ UNCHANGED <<input, messages, sends>>
               /\ isLoading /\ isLoading']_vars

\* A send with text in the field was rejected while a request was
\* outstanding.
C9_Witness ==
    /\ chatOp.op = "send" /\ ~chatOp.accepted
    /\ Outstanding(sends) # {}
    /\ Trim(input) # <<>>

\* C10: every send whose request failed (transport failure, unparseable
\* body, or a response that reports failure) has appended the fixed error
\* entry, every resolved send has appended exactly one assistant entry, and
\* no call of handleSend ends in a rejection.
C10_FailureDegrades ==
    /\ \A i \in 1..Len(sends) :
          /\ sends[i].stage \in {"fetch", "json", "fulfilled"}
          /\ (sends[i].stage = "fulfilled" /\ (sends[i].failure # "none" \/ ~sends[i].ok))
                => messages[sends[i].reply] = ErrorEntry
    /\ Cardinality({k \in 1..Len(messages) : messages[k].role = "bot"})
          = 1 + Cardinality({i \in 1..Len(sends) : sends[i].stage = "fulfilled"})
\* C11: the single-flight flag is set exactly while a request is outstanding:
\* an accepted send sets it, it is never cleared while the request is in
\* flight, the resolution of the request (reply or failure) clears it, and a
\* non-blank send made when no request is outstanding is accepted.
C11_FlagTracksRequest ==
    [][/\ isLoading' <=> (Outstanding(sends') # {})
       /\ (chatOp'.op = "send" /\ Outstanding(sends) = {} /\ Trim(input) # <<>>)
            => (chatOp'.accepted /\ isLoading' /\ Len(sends') = Len(sends) + 1)]_vars

\* A send is accepted after the request before it failed.
C11_Witness ==
    /\ chatOp.op = "send" /\ chatOp.accepted
    /\ Len(sends) = 2 /\ sends[1].failure = "transport"
    /\ isLoading

\* The log that the requests sq account for: the greeting, then for each
\* request its user entry followed directly by its one assistant entry.
LogOf(ms, sq) ==
    /\ ms[1] = GreetingEntry
    /\ Len(ms) = 1 + Len(sq) + Cardinality({i \in 1..Len(sq) : sq[i].stage = "fulfilled"})
    /\ \A i \in 1..Len(sq) :
        /\ ms[2 * i] = [role |-> "user", text |-> Some(sq[i].body.user_query), results |-> None]
        /\ sq[i].stage = "fulfilled" => sq[i].reply = 2 * i + 1
        /\ (sq[i].stage = "fulfilled" /\ sq[i].failure = "none")
            => ms[2 * i + 1] = [role |-> "bot", text |-> sq[i].data.message,
                                results |-> sq[i].data.results]

\* C12: an accepted send appends the user entry carrying the raw input text
\* and issues the request with that text; the reply appends one assistant
\* entry carrying the response's message and result list, directly after the
\* user entry.
C12_SendAppendsInOrder ==
    [][/\ LogOf(messages', sends')
       /\ (chatOp'.op = "send" /\ chatOp'.accepted)
            => /\ messages' = Append(messages, [role |-> "user", text |-> Some(input),
                                                results |-> None])
               /\ sends'[Len(sends')].body.user_query = input
               /\ sends'[Len(sends')].stage = "fetch"]_vars

\* One successful send from the seeded log: greeting, user entry with its
\* white space kept, assistant entry with the result list.
C12_Witness ==
    /\ Len(messages) = 3
    /\ messages[1] = GreetingEntry
    /\ messages[2] = UserEntry(<<" ", "x">>)
    /\ messages[3] = [role |-> "bot", text |-> Some(<<"reply">>),
                      results |-> Some(<<[name |-> "tmp", path |-> "/tmp"]>>)]

\* C13: the log is append-only: on every step the log before is a prefix of
\* the log after, and the first entry is always the greeting.
C13_LogAppendOnly ==
    [][/\ Len(messages') >= Len(messages)
       /\ SubSeq(messages', 1, Len(messages)) = messages
       /\ messages'[1] = GreetingEntry]_vars

\* A failed request and a successful one have both been logged.
C13_Witness ==
    /\ Len(messages) = 5
    /\ sends[1].failure = "transport"
    /\ sends[2].stage = "fulfilled" /\ sends[2].failure = "none"


\* ------------------------------------------------ error-path properties

\* C14: a start command issued with no handle and no panel looks for the
\* executable; when it is absent the user is told so with one error message,
\* nothing is spawned, backendProcess stays undefined, no panel is created,
\* and no later step spawns a worker other than a start command that finds
\* the executable.
C14_MissingBinary ==
    [][/\ (lastOp'.op = "start" /\ backendProcess = 0 /\ currentPanel = 0)
            => lastOp'.exe # "unchecked"
       /\ (lastOp'.op = "start" /\ lastOp'.exe = "absent")
            => /\ lastOp'.notices = 1 /\ lastOp'.notice = "missing"
               /\ ~lastOp'.spawned /\ ~lastOp'.created /\ lastOp'.reveals = 0
               /\ backendProcess' = 0 /\ currentPanel' = 0
               /\ UNCHANGED <<procs, panels>>
       /\ NumSpawned(procs') > NumSpawned(procs)
            => (lastOp'.op = "start" /\ lastOp'.exe = "found")]_vars

\* The executable was missing twice in a row and nothing has been spawned.
C14_Witness ==
    /\ lastOp.op = "start" /\ lastOp.exe = "absent" /\ lastOp.run = 2
    /\ lastOp.notice = "missing"
    /\ backendProcess = 0 /\ NumSpawned(procs) = 0

\* C15: when the 'error' event of a failed launch is handled, one error
\* message is surfaced, backendProcess is cleared, and the panel is neither
\* disposed nor created; no panel exists at that moment.
C15_LaunchFailure ==
    [][lastOp'.op = "error"
        => /\ lastOp'.notices = 1 /\ lastOp'.notice = "spawnerr"
           /\ backendProcess' = 0
           /\ ~lastOp'.created /\ ~lastOp'.disposed /\ lastOp'.reveals = 0
           /\ UNCHANGED <<currentPanel, panels>>
           /\ currentPanel = 0 /\ OpenPanels = {}]_vars

\* A launch has failed, its error has been handled, and the handle is clear.
C15_Witness ==
    /\ lastOp.op = "error" /\ lastOp.notice = "spawnerr"
    /\ \E p \in ProcIds : procs[p].st = "failed"
    /\ backendProcess = 0 /\ currentPanel = 0

\* C16: readiness is detected once per worker.  The first chunk of a worker
\* that holds the marker sets that worker's flag and invokes the show
\* operation; a chunk without the marker, or with it once the flag is set,
\* changes neither the flags nor the panel and does not invoke the show
\* operation; a flag is never reset, and a new worker starts with it false.
C16_ReadyOncePerWorker ==
    [][/\ lastOp'.op = "stderr"
            => LET p == lastOp'.proc IN
               /\ \A q \in ProcIds \ {p} : procs'[q] = procs[q]
               /\ IF lastOp'.marker /\ ~procs[p].isBackendReady
                  THEN /\ procs'[p].isBackendReady
                       /\ lastOp'.created \/ lastOp'.reveals = 1
                  ELSE /\ UNCHANGED <<procs, currentPanel, panels>>
                       /\ ~lastOp'.created /\ lastOp'.reveals = 0
       /\ \A p \in ProcIds : procs[p].isBackendReady => procs'[p].isBackendReady
       /\ lastOp'.spawned => ~procs'[NumSpawned(procs')].isBackendReady]_vars

\* The marker arrives again from a worker whose flag is set: nothing is shown.
C16_Witness ==
    /\ lastOp.op = "stderr" /\ lastOp.marker
    /\ procs[lastOp.proc].isBackendReady
    /\ ~lastOp.created /\ lastOp.reveals = 0

\* C17: every output line that holds an error or warning marker and no
\* informational marker produces an error notification, also when it is
\* delivered in one chunk with other lines; the notification leaves the
\* worker, backendProcess, the readiness flag and currentPanel unchanged.
C17_ErrorLinesNotified ==
    (lastOp.op = "stderr" /\ lastOp.errLines > 0) => lastOp.notices >= 1

\* The column a panel is shown in by preference: the active editor's, or
\* ViewColumn.One when there is no active editor.
PreferredColumn(editor) == IF editor # 0 THEN editor ELSE ViewColumnOne

\* C18: whenever a panel is revealed (by a start command with the panel open,
\* or by the show operation) or created, the column used is the preferred
\* one: the active editor's column if there is an active editor, else
\* ViewColumn.One.
C18_PreferredColumn ==
    (lastOp.created \/ lastOp.reveals > 0) => lastOp.column = PreferredColumn(lastOp.editor)

\* C19 as stated: in every reachable state a worker that was spawned and has
\* not exited is the one backendProcess refers to.
C19_LiveWorkerIsReferenced ==
    \A p \in LiveWorkers : backendProcess = p

\* C19, amended: a worker that was spawned and has not exited is either the
\* one backendProcess refers to or has been killed by teardown; the handle
\* of a live worker is cleared only by that worker's own exit or by teardown
\* and is never replaced; after teardown every live worker has been killed.
C19_NoOrphanedWorker ==
    [][/\ \A p \in ProcIds :
            procs'[p].st = "running" => (backendProcess' = p \/ procs'[p].killed)
       /\ (backendProcess # 0 /\ Live(backendProcess) /\ backendProcess' # backendProcess)
            => /\ backendProcess' = 0
               /\ \/ lastOp'.op = "exit" /\ procs'[backendProcess].st = "exited"
                  \/ lastOp'.op = "teardown" /\ procs'[backendProcess].killed
       /\ ~active' => \A p \in ProcIds : procs'[p].st = "running" => procs'[p].killed]_vars

\* Teardown has killed the worker, which has not exited yet.
C19_Witness ==
    /\ lastOp.op = "teardown" /\ ~active
    /\ backendProcess = 0
    /\ \E p \in LiveWorkers : procs[p].killed

\* --------------------------------------------------- renderer properties

IsRef(e) == e.kind = "ref"
IsHeadOpen(e) == e \in HeadTags

\* C20: rendering rewrites every reference ./assets/<name> of the document to
\* <translated root>/assets/<name> with the one translated root, leaves no
\* ./assets/ reference unrewritten and no other reference changed, and
\* injects the base and content-security-policy tags immediately after the
\* document's head-open tag.
C20_AssetsRewrittenHeadInjected ==
    html.ok =>
        LET inRefs == SelectSeq(doc, IsRef)
            outRefs == SelectSeq(html.body, IsRef)
            heads == {i \in 1..Len(doc) : IsHeadOpen(doc[i])}
        IN
        /\ \A i \in 1..Len(html.body) : IsRef(html.body[i]) => html.body[i].dir # RelAssets
        /\ Len(outRefs) = Len(inRefs)
        /\ \A i \in 1..Len(inRefs) :
               outRefs[i] = IF inRefs[i].dir = RelAssets
                            THEN [inRefs[i] EXCEPT !.dir = <<baseUri, "assets">>]
                            ELSE inRefs[i]
        /\ heads # {} =>
               LET h == CHOOSE i \in heads : \A j \in heads : i <= j IN
               /\ Len(html.body) = Len(doc) + Len(InjectedTags(baseUri))
               /\ SubSeq(html.body, h + 1, h + Len(InjectedTags(baseUri))) = InjectedTags(baseUri)

=============================================================================
